---- MODULE Spec2Model ----
(***************************************************************************)
(* Model of the WebSocket upgrade-handshake engine of                      *)
(* src/lib/websocket-server.ts (class WebSocketServer), with the helpers   *)
(* of src/lib/util.ts and the connection record of src/lib/websocket.ts.   *)
(*                                                                         *)
(* Text is modelled as a sequence of symbols (strings).  Where the code    *)
(* indexes, splits or pattern-matches a text (request path, route, key,    *)
(* protocol list) every symbol is one character; where the code only       *)
(* compares a text for equality a whole word is one symbol.                *)
(***************************************************************************)
EXTENDS Integers, Sequences, FiniteSets, TLC

(***************************************************************************)
(* Bounds of the exploration.                                              *)
(***************************************************************************)
MaxAttempts == 2      \* upgrade attempts per behaviour
MaxDeviations == 2    \* request fields that differ from BaseRequest
MaxPathLen == 4       \* longest generated request path and route prefix

(***************************************************************************)
(* JavaScript values.                                                      *)
(***************************************************************************)
\* the value `undefined` (an absent header, an omitted argument)
Undefined == <<"<undefined>">>
\* the empty string
Empty == <<>>
\* `undefined` where a list of texts is expected
UndefinedList == <<Undefined>>
\* JavaScript truthiness of a string-or-undefined value
Truthy(x) == x # Undefined /\ x # Empty
\* str[i] with a 0-based index; out of range gives undefined
CharAt(str, i) == IF i >= 0 /\ i < Len(str) THEN str[i + 1] ELSE "<undefined>"
\* str.substring(start) with a 0-based start
Substring(str, start) == IF start >= Len(str) THEN Empty ELSE SubSeq(str, start + 1, Len(str))

(***************************************************************************)
(* src/lib/util.ts                                                         *)
(***************************************************************************)
\* lastSlash: scans i = str.length down to 0, returns the first i with
\* str[i] === '/'; falls off the end (undefined) when there is none.
RECURSIVE lastSlashFrom(_, _)
lastSlashFrom(str, i) ==
    IF i < 0 THEN -1
    ELSE IF CharAt(str, i) = "/" THEN i
    ELSE lastSlashFrom(str, i - 1)

\* Every caller passes a Pathname, which starts with '/', so the scan
\* always finds a slash; -1 stands for the never-taken fall-through.
lastSlash(str) == lastSlashFrom(str, Len(str))

\* http.STATUS_CODES[statusCode]
STATUS_CODES(statusCode) ==
    CASE statusCode = 101 -> "Switching Protocols"
      [] statusCode = 400 -> "Bad Request"
      [] statusCode = 403 -> "Forbidden"
      [] statusCode = 404 -> "Not Found"
      [] statusCode = 426 -> "Upgrade Required"

\* new Date().toUTCString(): the clock is not part of the model
UTCDate == "<date>"

\* String(headers.forEach(cb)): Array.prototype.forEach returns undefined
\* whatever the callback returns, so the template interpolates "undefined".
ForEachInterpolated(headers) == <<"undefined">>

\* formatHttpResponse(statusCode, headers?).  `headers.forEach` on an
\* omitted argument is a TypeError; otherwise the template literal gives
\* the status line, the Date line and the interpolated forEach result.
formatHttpResponse(statusCode, headers) ==
    IF headers = UndefinedList
    THEN [threw |-> TRUE, text |-> <<>>]
    ELSE [threw |-> FALSE,
          text  |-> << <<"HTTPS/1.1 ", ToString(statusCode), " ", STATUS_CODES(statusCode)>>,
                       <<"Date: ", UTCDate>>,
                       ForEachInterpolated(headers) >>]

\* the 64 characters of [0-9a-zA-Z+/]
Base64Alphabet ==
    {"0","1","2","3","4","5","6","7","8","9",
     "a","b","c","d","e","f","g","h","i","j","k","l","m",
     "n","o","p","q","r","s","t","u","v","w","x","y","z",
     "A","B","C","D","E","F","G","H","I","J","K","L","M",
     "N","O","P","Q","R","S","T","U","V","W","X","Y","Z",
     "+","/"}

\* isBase64Encoded: /^([0-9a-zA-Z+/]{4})*(([0-9a-zA-Z+/]{2}==)|([0-9a-zA-Z+/]{3}=))?$/
isBase64Encoded(str) ==
    LET n == Len(str) IN
    /\ n % 4 = 0
    /\ \A i \in 1..n : i <= n - 2 => str[i] \in Base64Alphabet
    /\ n > 0 =>
         \/ str[n - 1] \in Base64Alphabet /\ str[n] \in Base64Alphabet
         \/ str[n - 1] \in Base64Alphabet /\ str[n] = "="
         \/ str[n - 1] = "=" /\ str[n] = "="

(***************************************************************************)
(* src/lib/constants.ts                                                    *)
(***************************************************************************)
\* the RFC 6455 GUID, kept as one symbol
GUID == "258EAFA5-E914-47DA-95CA-C5AB0DC85B11"
\* STATE.OPEN
STATE_OPEN == "OPEN"

(***************************************************************************)
(* Texts used as inputs.                                                   *)
(***************************************************************************)
RouteChat == <<"/","c","h","a","t">>
RouteChatId == <<"/","c","h","a","t","/",":","i","d">>
PathChatRoom1 == <<"/","c","h","a","t","/","r","o","o","m","1">>
PathChatAnything == <<"/","c","h","a","t","/","a","n","y","t","h","i","n","g">>
PathChatroom == <<"/","c","h","a","t","r","o","o","m">>
PathCc == <<"/","c","c">>
PathCcccX == <<"/","c","c","c","c","/","x">>
PathCcccY == <<"/","c","c","c","c","/","y">>

\* the RFC 6455 sample key dGhlIHNhbXBsZSBub25jZQ==
SampleKey ==
    <<"d","G","h","l","I","H","N","h","b","X","B","s","Z","S","B","u",
      "b","2","5","j","Z","Q","=","=">>
\* 20 characters: valid base64 text of the wrong length
ShortKey == SubSeq(SampleKey, 1, 18) \o <<"=","=">>

OriginA == <<"https://a.example">>
OriginB == <<"https://b.example">>

\* sec-websocket-protocol header texts: names are atomic symbols, the
\* separators are the characters ',' and ' '
OfferV2V1 == <<"chatv2", ",", " ", "chatv1">>
OfferV4 == <<"chatv4">>
ServerV1V3 == << <<"chatv1">>, <<"chatv3">> >>

(***************************************************************************)
(* Upgrade requests: IncomingMessage reduced to the fields the handler     *)
(* reads.  The Host header is taken to be a valid authority, so that       *)
(* `new URL(req.url, base)` only has to resolve req.url.                   *)
(***************************************************************************)
RequestFields ==
    {"url", "httpVersion", "method", "upgrade", "connection", "key", "version", "origin", "protocol"}

\* a request every check of the code lets through on both modelled routes
BaseRequest ==
    [url |-> PathCc, httpVersion |-> <<"1.1">>, method |-> <<"GET">>,
     upgrade |-> <<"websocket">>, connection |-> <<"upgrade">>,
     key |-> SampleKey, version |-> <<"13">>, origin |-> OriginA,
     protocol |-> Undefined]

FieldValues ==
    [url         |-> {PathCc, RouteChat, PathCcccX, PathCcccY},
     httpVersion |-> {<<"1.1">>, <<"1.0">>},
     method      |-> {<<"GET">>, <<"POST">>},
     upgrade     |-> {<<"websocket">>, <<"WebSocket">>},
     connection  |-> {<<"upgrade">>, <<"Upgrade">>},
     key         |-> {SampleKey, ShortKey, Undefined},
     version     |-> {<<"13">>, <<"8">>, Undefined},
     origin      |-> {OriginA, OriginB, Undefined},
     protocol    |-> {Undefined, OfferV2V1, OfferV4}]

Deviations(r) == {f \in RequestFields : r[f] # BaseRequest[f]}

Requests ==
    {r \in [url : FieldValues.url, httpVersion : FieldValues.httpVersion,
            method : FieldValues.method, upgrade : FieldValues.upgrade,
            connection : FieldValues.connection, key : FieldValues.key,
            version : FieldValues.version, origin : FieldValues.origin,
            protocol : FieldValues.protocol] :
        Cardinality(Deviations(r)) <= MaxDeviations}

\* constructor arguments: (server, route, options)
OptionSets ==
    [origins : {UndefinedList, <<OriginA>>},
     requireOrigin : BOOLEAN,
     subProtocols : {UndefinedList, ServerV1V3}]
ServiceRoutes == {RouteChat, RouteChatId}

\* arguments of getPeers
PeerArguments == {Undefined, Empty, <<"x">>}

(***************************************************************************)
(* State.                                                                  *)
(***************************************************************************)
VARIABLES
    options,            \* the options argument of the constructor
    server,             \* #server is a transport (TRUE) or null (FALSE)
    serviceRoute,       \* #serviceRoute
    wildcardRoute,      \* #wildcardRoute
    origins,            \* #origins
    requireOrigin,      \* #requireOrigin
    subprotocols,       \* #subprotocols
    activeConnections,  \* #activeConnections: an array or an object of arrays
    sockets,            \* sockets[k]: the transport of the k-th upgrade attempt
    emitted,            \* the 'connection' events emitted so far, in order
    req,                \* the request of the latest upgrade attempt
    ret                 \* how the latest call ended

vars == <<options, server, serviceRoute, wildcardRoute, origins, requireOrigin,
          subprotocols, activeConnections, sockets, emitted, req, ret>>

config == <<options, server, serviceRoute, wildcardRoute, origins, requireOrigin, subprotocols>>

(***************************************************************************)
(* src/lib/websocket.ts                                                    *)
(***************************************************************************)
\* new WebSocket(tlsSocket, pathname)
WebSocket(tlsSocket, pathname) ==
    [tlsSocket |-> tlsSocket, readyState |-> STATE_OPEN, uri |-> pathname]

(***************************************************************************)
(* src/lib/websocket-server.ts: the pure parts                             *)
(***************************************************************************)
\* new URL(req.url, `https://${req.headers.host}`).pathname for an
\* origin-form request target: the part before the query or fragment.
\* (Targets with dot segments, escapes or a leading '//' are not inputs.)
RECURSIVE URLPathname(_)
URLPathname(url) ==
    IF url = Empty \/ Head(url) \in {"?", "#"} THEN Empty
    ELSE <<Head(url)>> \o URLPathname(Tail(url))

\* #isWildcard
isWildcard(route) == CharAt(route, lastSlash(route) + 1) = ":"

\* the for loop of #correctRoute; j is initialised to 1 and the loop body
\* never changes it
RECURSIVE correctRouteLoop(_, _, _, _)
correctRouteLoop(pathname, i, j, slashIndex) ==
    IF ~(i < Len(pathname)) THEN TRUE
    ELSE IF i = slashIndex /\ wildcardRoute THEN TRUE
    ELSE IF CharAt(pathname, i) # CharAt(serviceRoute, j) THEN FALSE
    ELSE correctRouteLoop(pathname, i + 1, j, slashIndex)

\* #correctRoute
correctRoute(r) ==
    IF ~Truthy(r.url) THEN FALSE
    ELSE correctRouteLoop(URLPathname(r.url), 1, 1, lastSlash(serviceRoute))

\* Array.prototype.includes
Includes(list, x) == \E i \in 1..Len(list) : list[i] = x

\* #originValid
originValid(r) ==
    IF Truthy(r.origin) /\ origins # UndefinedList THEN Includes(origins, r.origin)
    ELSE IF requireOrigin /\ ~Truthy(r.origin) THEN FALSE
    ELSE TRUE

\* Number(req.httpVersion), in tenths
HttpVersionNumber(v) ==
    CASE v = <<"1.0">> -> 10
      [] v = <<"1.1">> -> 11
      [] v = <<"2.0">> -> 20

\* #keyValid without the test of the padding
keyValidAnyPadding(key) ==
    IF ~isBase64Encoded(key) THEN FALSE
    ELSE IF Len(key) # 24 THEN FALSE
    ELSE TRUE

\* #keyValid
keyValid(key) ==
    IF ~isBase64Encoded(key) THEN FALSE
    ELSE IF Len(key) # 24 THEN FALSE
    ELSE IF Substring(key, 22) # <<"=", "=">> THEN FALSE
    ELSE TRUE

\* #requestValid
requestValid(r) ==
    IF \/ HttpVersionNumber(r.httpVersion) < 11
       \/ r.method # <<"GET">>
       \/ r.upgrade # <<"websocket">>
       \/ r.connection # <<"upgrade">>
       \/ ~Truthy(r.url)
       \/ ~Truthy(r.key)
       \/ ~keyValid(r.key)
    THEN FALSE
    ELSE TRUE

\* #versionValid
versionValid(r) == r.version = <<"13">>

\* String.prototype.trim on a text of characters
RECURSIVE TrimStart(_)
TrimStart(str) ==
    IF str # Empty /\ Head(str) = " " THEN TrimStart(Tail(str)) ELSE str
RECURSIVE TrimEnd(_)
TrimEnd(str) ==
    IF str # Empty /\ str[Len(str)] = " " THEN TrimEnd(SubSeq(str, 1, Len(str) - 1)) ELSE str
Trim(str) == TrimEnd(TrimStart(str))

\* the bytes hash.update(text, 'base64') feeds to the hash, named by the
\* base64 text they decode from: the decoder skips characters outside the
\* (plain or URL-safe) alphabet and stops at the first '=' (so the GUID,
\* which follows the padding of a valid key, is never read)
RECURSIVE Base64DecodedPart(_)
Base64DecodedPart(text) ==
    IF text = Empty \/ Head(text) = "=" THEN Empty
    ELSE IF Head(text) \in Base64Alphabet \cup {"-", "_"}
         THEN <<Head(text)>> \o Base64DecodedPart(Tail(text))
         ELSE Base64DecodedPart(Tail(text))

\* hash input: which encoding read the text, and the text that was read
HashInput(encoding, text) ==
    IF encoding = "base64" THEN <<"base64">> \o Base64DecodedPart(text)
    ELSE <<encoding>> \o text

\* createHash('sha1').update(input).digest().toString('base64'): the SHA-1
\* digests of the inputs the model meets, a symbolic digest for the others
Sha1Base64(input) ==
    IF input = <<"utf8">> \o SampleKey \o <<GUID>>
    THEN <<"s3pPLMBiTxaQ9kYGzzhZRbK+xOo=">>
    ELSE IF input = <<"base64">> \o SubSeq(SampleKey, 1, 22)
    THEN <<"nYNUMU3LUURODadrlj9ew7SwzYI=">>
    ELSE <<"sha1-base64:">> \o input

\* #generateSecWebSocketAccept: trim, append the GUID, hash the text read
\* with input encoding 'base64', write the digest out as base64
generateSecWebSocketAccept(key) ==
    LET trimmed == Trim(key)
        concatenated == trimmed \o <<GUID>>
    IN  Sha1Base64(HashInput("base64", concatenated))

\* String.prototype.split(', '): cut at every ',' that is followed by ' '
RECURSIVE SplitCommaSpace(_, _)
SplitCommaSpace(str, piece) ==
    IF str = Empty THEN <<piece>>
    ELSE IF Len(str) >= 2 /\ str[1] = "," /\ str[2] = " "
         THEN <<piece>> \o SplitCommaSpace(SubSeq(str, 3, Len(str)), Empty)
         ELSE SplitCommaSpace(Tail(str), Append(piece, Head(str)))

\* the for loop of #selectProtocol; `this.#subprotocols?.includes(...)` is
\* undefined (falsy) when #subprotocols is undefined
RECURSIVE selectProtocolLoop(_, _)
selectProtocolLoop(protocolArray, i) ==
    IF ~(i <= Len(protocolArray)) THEN Undefined
    ELSE IF subprotocols # UndefinedList /\ Includes(subprotocols, protocolArray[i])
         THEN protocolArray[i]
         ELSE selectProtocolLoop(protocolArray, i + 1)

\* #selectProtocol
selectProtocol(protocols) == selectProtocolLoop(SplitCommaSpace(protocols, Empty), 1)

\* #generateHeaders
generateHeaders(r) ==
    LET headers == << <<"Upgrade: websocket">>, <<"Connection: Upgrade">>,
                      <<"Sec-WebSocket-Accept: ">> \o generateSecWebSocketAccept(r.key) >>
    IN  IF Truthy(r.protocol) /\ Truthy(selectProtocol(r.protocol))
        THEN Append(headers, <<"Sec-WebSocket-Protocol: ">> \o selectProtocol(r.protocol))
        ELSE headers

(***************************************************************************)
(* src/lib/websocket-server.ts: the parts with effects.  A call is an      *)
(* operator from the state it finds to the state it leaves:                *)
(*   status   the status code the handler chose (0: none chosen yet)       *)
(*   threw    the call ended in an uncaught exception                      *)
(*   socket   the transport of the attempt                                 *)
(*   conns    #activeConnections                                           *)
(*   events   the 'connection' events emitted                              *)
(*   steps    the effects the call had, in the order it had them           *)
(***************************************************************************)
\* a fresh transport: nothing written, not ended
NewSocket == [written |-> <<>>, ended |-> FALSE]

\* socket.write(res, 'utf-8')
SocketWrite(socket, res) == [socket EXCEPT !.written = Append(@, res)]
\* socket.end()
SocketEnd(socket) == [socket EXCEPT !.ended = TRUE]

\* #abort: formatHttpResponse runs first; when it throws, neither write
\* nor end is reached
abort(statusCode, socket, headers) ==
    LET res == formatHttpResponse(statusCode, headers) IN
    IF res.threw
    THEN [status |-> statusCode, threw |-> TRUE, socket |-> socket,
          conns |-> activeConnections, events |-> emitted, steps |-> <<>>]
    ELSE [status |-> statusCode, threw |-> FALSE,
          socket |-> SocketEnd(SocketWrite(socket, res.text)),
          conns |-> activeConnections, events |-> emitted,
          steps |-> <<"write", "end">>]

\* #addConnection that assigns a new array in place of pushing
addConnectionReplaces(ws) ==
    IF activeConnections.isArray
    THEN [threw |-> FALSE,
          conns |-> [activeConnections EXCEPT !.list = <<ws>>]]
    ELSE [threw |-> TRUE, conns |-> activeConnections]

\* #addConnection: push on the array, or push on the array found under the
\* wildcard endpoint; nothing ever stores an array under a key, and
\* `undefined.push` is a TypeError
addConnection(ws) ==
    IF activeConnections.isArray
    THEN [threw |-> FALSE,
          conns |-> [activeConnections EXCEPT !.list = Append(@, ws)]]
    ELSE LET wildcardStartIndex == lastSlash(ws.uri) + 1
             wildcardEndpoint == Substring(ws.uri, wildcardStartIndex)
         IN  IF wildcardEndpoint \in DOMAIN activeConnections.map
             THEN [threw |-> FALSE,
                   conns |-> [activeConnections EXCEPT
                                 !.map[wildcardEndpoint] = Append(@, ws)]]
             ELSE [threw |-> TRUE, conns |-> activeConnections]

\* #upgrade that emits 'connection' twice
upgradeEmitsTwice(r, socket, id) ==
    LET pathname == URLPathname(r.url)
        ws == WebSocket(id, pathname)
        added == addConnection(ws)
        res == formatHttpResponse(101, generateHeaders(r))
    IN  IF added.threw
        THEN [status |-> 101, threw |-> TRUE, socket |-> socket,
              conns |-> activeConnections, events |-> emitted, steps |-> <<>>]
        ELSE [status |-> 101, threw |-> res.threw,
              socket |-> IF res.threw THEN socket ELSE SocketWrite(socket, res.text),
              conns |-> added.conns, events |-> Append(Append(emitted, ws), ws),
              steps |-> <<"addConnection", "emit", "emit", "write">>]

\* #upgrade: pathname, record, #addConnection, emit, headers, response, write
upgrade(r, socket, id) ==
    LET pathname == URLPathname(r.url)
        ws == WebSocket(id, pathname)
        added == addConnection(ws)
        res == formatHttpResponse(101, generateHeaders(r))
    IN  IF added.threw
        THEN [status |-> 101, threw |-> TRUE, socket |-> socket,
              conns |-> activeConnections, events |-> emitted, steps |-> <<>>]
        ELSE [status |-> 101, threw |-> res.threw,
              socket |-> IF res.threw THEN socket ELSE SocketWrite(socket, res.text),
              conns |-> added.conns, events |-> Append(emitted, ws),
              steps |-> IF res.threw THEN <<"addConnection", "emit">>
                        ELSE <<"addConnection", "emit", "write">>]

\* handleUpgrade of a server that refuses requests once it holds a connection
handleUpgradeUntilConnected(r, socket, id) ==
    IF activeConnections.list # <<>> THEN abort(403, socket, UndefinedList)
    ELSE IF ~originValid(r) THEN abort(403, socket, UndefinedList)
    ELSE IF ~requestValid(r) THEN abort(400, socket, UndefinedList)
    ELSE IF ~versionValid(r) THEN abort(426, socket, << <<"Sec-Websocket-Version: 13">> >>)
    ELSE upgrade(r, socket, id)

\* handleUpgrade that registers the connection before it tests the version
handleUpgradeRegistersFirst(r, socket, id) ==
    IF ~originValid(r) THEN abort(403, socket, UndefinedList)
    ELSE IF ~requestValid(r) THEN abort(400, socket, UndefinedList)
    ELSE IF ~versionValid(r)
         THEN [abort(426, socket, << <<"Sec-Websocket-Version: 13">> >>) EXCEPT
                  !.conns = upgrade(r, socket, id).conns,
                  !.events = upgrade(r, socket, id).events]
    ELSE upgrade(r, socket, id)

\* handleUpgrade
handleUpgrade(r, socket, id) ==
    IF ~originValid(r) THEN abort(403, socket, UndefinedList)
    ELSE IF ~requestValid(r) THEN abort(400, socket, UndefinedList)
    ELSE IF ~versionValid(r) THEN abort(426, socket, << <<"Sec-Websocket-Version: 13">> >>)
    ELSE upgrade(r, socket, id)

\* the 'upgrade' listener the constructor attaches to #server
upgradeListener(r, socket, id) ==
    IF correctRoute(r) THEN handleUpgrade(r, socket, id)
    ELSE abort(404, socket, UndefinedList)

\* getPeers
getPeers(uri) ==
    IF activeConnections.isArray
    THEN [kind |-> "list", list |-> activeConnections.list]
    ELSE IF Truthy(uri)
         THEN IF uri \in DOMAIN activeConnections.map
              THEN [kind |-> "list", list |-> activeConnections.map[uri]]
              ELSE [kind |-> "undefined", list |-> <<>>]
         ELSE [kind |-> "throw", list |-> <<>>]

(***************************************************************************)
(* Construction.                                                           *)
(***************************************************************************)
\* { origins: undefined, requireOrigin: false, subprotocols: undefined, ...options }
optionValues(opts) ==
    LET defaults == [origins |-> UndefinedList, requireOrigin |-> FALSE,
                     subprotocols |-> UndefinedList]
        keys == DOMAIN defaults \cup DOMAIN opts
    IN  [k \in keys |-> IF k \in DOMAIN opts THEN opts[k] ELSE defaults[k]]

\* the constructor
Constructed(srv, route, opts) ==
    /\ options = opts
    /\ origins = optionValues(opts).origins
    /\ requireOrigin = optionValues(opts).requireOrigin
    /\ subprotocols = optionValues(opts).subprotocols
    /\ server = srv
    /\ serviceRoute = route
    /\ wildcardRoute = isWildcard(route)
    /\ activeConnections = [isArray |-> ~isWildcard(route), list |-> <<>>, map |-> <<>>]
    /\ sockets = <<>>
    /\ emitted = <<>>
    /\ req = BaseRequest
    /\ ret = [op |-> "constructor", threw |-> FALSE, status |-> 0, steps |-> <<>>,
              kind |-> "none", list |-> <<>>, uri |-> Undefined]

Init ==
    \E srv \in BOOLEAN, route \in ServiceRoutes, opts \in OptionSets :
        Constructed(srv, route, opts)

(***************************************************************************)
(* Operations.                                                             *)
(***************************************************************************)
\* the state an upgrade attempt leaves
Attempted(op, r, eff) ==
    /\ sockets' = Append(sockets, eff.socket)
    /\ activeConnections' = eff.conns
    /\ emitted' = eff.events
    /\ req' = r
    /\ ret' = [op |-> op, threw |-> eff.threw, status |-> eff.status,
               steps |-> eff.steps,
               kind |-> "none", list |-> <<>>, uri |-> Undefined]
    /\ UNCHANGED config

\* #server emits 'upgrade' with a request on a fresh transport
UpgradeEvent(r) ==
    /\ server
    /\ Len(sockets) < MaxAttempts
    /\ Attempted("upgradeEvent", r, upgradeListener(r, NewSocket, Len(sockets) + 1))

\* a server built without a transport has handleUpgrade called by its owner
HandleUpgrade(r) ==
    /\ ~server
    /\ Len(sockets) < MaxAttempts
    /\ Attempted("handleUpgrade", r, handleUpgrade(r, NewSocket, Len(sockets) + 1))

\* a caller asks for the peers
GetPeers(uri) ==
    /\ ret.op # "getPeers"
    /\ ret' = [op |-> "getPeers", threw |-> getPeers(uri).kind = "throw", status |-> 0,
               steps |-> <<>>,
               kind |-> getPeers(uri).kind, list |-> getPeers(uri).list, uri |-> uri]
    /\ UNCHANGED <<config, activeConnections, sockets, emitted, req>>

Next ==
    \/ \E r \in Requests : UpgradeEvent(r)
    \/ \E r \in Requests : HandleUpgrade(r)
    \/ \E uri \in PeerArguments : GetPeers(uri)

Spec == Init /\ [][Next]_vars

(***************************************************************************)
(* Route matching on its own: the server is built on a route drawn from    *)
(* the generated patterns and receives requests that differ from           *)
(* BaseRequest in the path only.                                           *)
(***************************************************************************)
PathAlphabet == {"/", "c", "h"}

\* all texts over PathAlphabet of length n
RECURSIVE TextsOfLen(_)
TextsOfLen(n) ==
    IF n = 0 THEN {Empty}
    ELSE {Append(t, a) : t \in TextsOfLen(n - 1), a \in PathAlphabet}

\* '/' followed by up to MaxPathLen - 1 characters
GeneratedTexts ==
    {<<"/">> \o t : t \in UNION {TextsOfLen(n) : n \in 0..(MaxPathLen - 1)}}

\* request targets: generated ones that do not start with '//', and the
\* paths the specification names
GeneratedPaths ==
    {p \in GeneratedTexts : ~(Len(p) >= 2 /\ p[2] = "/")}
        \cup {RouteChat, PathChatRoom1, PathChatAnything, PathChatroom}

\* literal patterns, and wildcard patterns `<prefix>/:id`
LiteralRoutes == GeneratedTexts \cup {RouteChat}
WildcardRoutes ==
    {p \o <<":", "i", "d">> : p \in {q \in GeneratedTexts : q[Len(q)] = "/"}}
        \cup {RouteChatId}

InitRoute ==
    \E route \in LiteralRoutes \cup WildcardRoutes :
        Constructed(TRUE, route,
                    [origins |-> UndefinedList, requireOrigin |-> FALSE,
                     subProtocols |-> UndefinedList])

NextRoute ==
    \E p \in GeneratedPaths : UpgradeEvent([BaseRequest EXCEPT !.url = p])

SpecRoute == InitRoute /\ [][NextRoute]_vars

(***************************************************************************)
(* Vocabulary of the properties.                                           *)
(***************************************************************************)
\* the latest call was an upgrade attempt
IsAttempt == ret.op \in {"upgradeEvent", "handleUpgrade"}
\* the transport of the latest attempt
LastSocket == sockets[Len(sockets)]
\* the status code on the status line of a response text
ResponseStatus(text) == text[1][2]
\* a response text has a given header line
HasLine(text, line) == \E i \in 2..Len(text) : text[i] = line
\* what the transport of an attempt shows: the status of the one response
\* written on it, "none" when nothing or more than one was written
Outcome(socket) ==
    IF Len(socket.written) = 1 THEN ResponseStatus(socket.written[1]) ELSE "none"
\* the first failing check in the order route, origin, structure, version
FirstFailing(r) ==
    IF ~correctRoute(r) THEN 404
    ELSE IF ~originValid(r) THEN 403
    ELSE IF ~requestValid(r) THEN 400
    ELSE IF ~versionValid(r) THEN 426
    ELSE 101
\* the part of a path after its final '/'
WildcardSegment(path) == Substring(path, lastSlash(path) + 1)
\* p is a prefix of s
IsPrefix(p, s) == Len(p) <= Len(s) /\ SubSeq(s, 1, Len(p)) = p
\* the literal part of the route: all of a literal pattern, a wildcard
\* pattern up to and including its last '/'
LiteralPrefix == 
    IF wildcardRoute THEN SubSeq(serviceRoute, 1, lastSlash(serviceRoute) + 1)
    ELSE serviceRoute
\* the names a sec-websocket-protocol header offers, in the client's order
ClientOffers(header) ==
    IF ~Truthy(header) THEN <<>>
    ELSE SelectSeq(header, LAMBDA sym : sym \notin {",", " "})
\* the first offered name the configured list supports
RECURSIVE FirstSupported(_, _)
FirstSupported(offers, supported) ==
    IF offers = <<>> \/ supported = UndefinedList THEN Undefined
    ELSE IF Includes(supported, <<Head(offers)>>) THEN <<Head(offers)>>
    ELSE FirstSupported(Tail(offers), supported)
\* a header list or response text carries a Sec-WebSocket-Protocol line
HasProtocolLine(lines) ==
    \E i \in 1..Len(lines) : lines[i][1] = "Sec-WebSocket-Protocol: "

(***************************************************************************)
(* Properties.                                                             *)
(***************************************************************************)
\* C1: an upgrade event ends in exactly one of the outcomes 404, 403, 400,
\* 426, 101, and the outcome is the one of the first failing check in the
\* order route, origin, structure, version (101 when none fails).
C1_FirstFailingCheckDecides ==
    ret.op = "upgradeEvent" =>
        Outcome(LastSocket) = ToString(FirstFailing(req))

\* C2: a rejected attempt (404, 403, 400, 426) has the error response with
\* that status written to its transport and the transport closed; an
\* accepted attempt has a 101 response written and the transport left open.
C2_AbortWritesThenCloses ==
    IsAttempt =>
        /\ Len(LastSocket.written) = 1
        /\ ResponseStatus(LastSocket.written[1]) = ToString(ret.status)
        /\ LastSocket.ended = (ret.status # 101)

\* C3: the 101 response written for an accepted handshake has the lines
\* Upgrade: websocket, Connection: Upgrade and Sec-WebSocket-Accept with the
\* token of the request's key, and a Sec-WebSocket-Protocol line exactly
\* when negotiation selected a protocol.
C3_AcceptResponseHeaders ==
    (IsAttempt /\ Outcome(LastSocket) = "101") =>
        LET text == LastSocket.written[1] IN
        /\ HasLine(text, <<"Upgrade: websocket">>)
        /\ HasLine(text, <<"Connection: Upgrade">>)
        /\ HasLine(text, <<"Sec-WebSocket-Accept: ">> \o generateSecWebSocketAccept(req.key))
        /\ IF Truthy(req.protocol) /\ Truthy(selectProtocol(req.protocol))
           THEN HasLine(text, <<"Sec-WebSocket-Protocol: ">> \o selectProtocol(req.protocol))
           ELSE ~HasProtocolLine(text)

\* C4: a request that passes the route, origin and structural checks and
\* whose sec-websocket-version is not exactly 13 (or is missing) is answered
\* with 426, and the response has the header Sec-WebSocket-Version: 13
\* (header names compare without regard to case).
C4_VersionGate ==
    (IsAttempt /\ correctRoute(req) /\ originValid(req) /\ requestValid(req)
        /\ req.version # <<"13">>) =>
        /\ Outcome(LastSocket) = "426"
        /\ \/ HasLine(LastSocket.written[1], <<"Sec-WebSocket-Version: 13">>)
           \/ HasLine(LastSocket.written[1], <<"Sec-Websocket-Version: 13">>)

\* C5: on a literal route the route check accepts a path exactly when the
\* path equals the pattern, character for character and in length.
C5_LiteralRouteExact ==
    (ret.op = "upgradeEvent" /\ ~wildcardRoute) =>
        ((ret.status # 404) <=> (URLPathname(req.url) = serviceRoute))

\* C6: on a wildcard route the route check accepts a path exactly when the
\* path begins with the pattern's literal prefix, up to and including the
\* pattern's last '/'.
C6_WildcardRoutePrefix ==
    (ret.op = "upgradeEvent" /\ wildcardRoute) =>
        ((ret.status # 404) <=> IsPrefix(LiteralPrefix, URLPathname(req.url)))

\* C7: a path that ends before the pattern's literal part is consumed is a
\* route mismatch (404), for literal and wildcard patterns alike.
C7_ShortPathNeverMatches ==
    (ret.op = "upgradeEvent" /\ Len(URLPathname(req.url)) < Len(LiteralPrefix)) =>
        ret.status = 404

\* C8: on a wildcard route an accepted handshake appends its connection
\* record to the bucket keyed by the part of its path after the final '/',
\* creating the bucket on first use; every bucket holds exactly the records
\* of its own segment.
C8_WildcardBuckets ==
    (IsAttempt /\ wildcardRoute /\ ret.status = 101) =>
        LET segment == WildcardSegment(URLPathname(req.url))
            buckets == activeConnections.map
        IN  /\ segment \in DOMAIN buckets
            /\ buckets[segment] # <<>>
            /\ buckets[segment][Len(buckets[segment])].tlsSocket = Len(sockets)
            /\ \A k \in DOMAIN buckets : \A i \in 1..Len(buckets[k]) :
                   WildcardSegment(buckets[k][i].uri) = k

\* the records a wildcard registry owes to a segment: those of the accepted
\* handshakes with that segment, in order
RECURSIVE RecordsOfSegment(_, _)
RecordsOfSegment(events, segment) ==
    IF events = <<>> THEN <<>>
    ELSE (IF WildcardSegment(Head(events).uri) = segment THEN <<Head(events)>> ELSE <<>>)
             \o RecordsOfSegment(Tail(events), segment)

\* C9: getPeers on a flat registry returns the full list whatever the
\* argument; on a wildcard registry it returns the list of the bucket of the
\* segment when one is given and fails with a usage error when it is
\* omitted; the registry is unchanged.
C9_PeersContract ==
    [][ret'.op = "getPeers" =>
        /\ activeConnections' = activeConnections
        /\ activeConnections.isArray =>
               (ret'.kind = "list" /\ ret'.list = activeConnections.list)
        /\ (~activeConnections.isArray /\ ret'.uri # Undefined) =>
               (ret'.kind = "list" /\ ret'.list = RecordsOfSegment(emitted, ret'.uri))
        /\ (~activeConnections.isArray /\ ret'.uri = Undefined) =>
               ret'.kind = "throw"]_vars

\* C10: on a server configured with subProtocols, an accepted request's
\* selected subprotocol is the first name in the client's order that the
\* configured list has, and no Sec-WebSocket-Protocol header is produced
\* when there is no such name or nothing was offered.
C10_ClientPreferenceWins ==
    (IsAttempt /\ ret.status = 101 /\ options.subProtocols # UndefinedList) =>
        LET expected == FirstSupported(ClientOffers(req.protocol), options.subProtocols)
            headers == generateHeaders(req)
        IN  IF expected = Undefined THEN ~HasProtocolLine(headers)
            ELSE \E i \in 1..Len(headers) :
                     headers[i] = <<"Sec-WebSocket-Protocol: ">> \o expected

(***************************************************************************)
(* Key validation on its own: a server on route /chat receives requests    *)
(* that differ from BaseRequest in the key, and in the method and the      *)
(* version beside it.                                                      *)
(***************************************************************************)
\* the sample key with one character replaced, cut short, cut short and
\* padded, made longer, or absent
KeyVariants ==
    {[SampleKey EXCEPT ![i] = c] : i \in 1..Len(SampleKey), c \in {"A", "*", "=", " "}}
        \cup {SubSeq(SampleKey, 1, n) : n \in 0..Len(SampleKey)}
        \cup {SubSeq(SampleKey, 1, n) \o <<"=", "=">> : n \in {2, 6, 10, 14, 18}}
        \cup {SubSeq(SampleKey, 1, 22) \o <<"A", "A", "A", "A", "=", "=">>,
              SampleKey \o <<"=">>, Undefined}

InitKey ==
    Constructed(TRUE, RouteChat,
                [origins |-> UndefinedList, requireOrigin |-> FALSE,
                 subProtocols |-> UndefinedList])

NextKey ==
    \E k \in KeyVariants, m \in FieldValues.method, v \in FieldValues.version :
        UpgradeEvent([BaseRequest EXCEPT !.key = k, !.method = m, !.version = v])

SpecKey == InitKey /\ [][NextKey]_vars

\* the origin truth table, read off the configuration
OriginTable(r) ==
    IF Truthy(r.origin) /\ options.origins # UndefinedList
    THEN Includes(options.origins, r.origin)
    ELSE IF ~Truthy(r.origin) /\ options.requireOrigin THEN FALSE
    ELSE TRUE
\* the route check let the latest attempt through, or was not part of it
RoutePassed == ret.op = "upgradeEvent" => correctRoute(req)

\* C11: the origin check follows the truth table (origin present and
\* allow-list configured: membership; origin absent and requireOrigin:
\* deny; otherwise allow); a request the table denies is rejected with 403,
\* one it allows is never answered 403 and is accepted when nothing else is
\* wrong with it.
C11_OriginTruthTable ==
    (IsAttempt /\ RoutePassed) =>
        /\ originValid(req) = OriginTable(req)
        /\ IF ~OriginTable(req) THEN Outcome(LastSocket) = "403"
           ELSE /\ Outcome(LastSocket) # "403"
                /\ (requestValid(req) /\ versionValid(req)) => Outcome(LastSocket) = "101"

\* lower case of the words the upgrade and connection headers carry
ToLowerCase(word) ==
    IF word = <<"WebSocket">> THEN <<"websocket">>
    ELSE IF word = <<"Upgrade">> THEN <<"upgrade">>
    ELSE word

\* C12: the upgrade and connection headers are compared without regard to
\* case: a request that is structurally valid once these two header values
\* are put in lower case is not rejected with 400.
C12_HeadersCaseInsensitive ==
    (IsAttempt /\ RoutePassed /\ originValid(req)
        /\ requestValid([req EXCEPT !.upgrade = ToLowerCase(@),
                                    !.connection = ToLowerCase(@)])) =>
        ret.status # 400

\* a key of 22 base64-alphabet characters followed by '=='
KeyWellFormed(key) ==
    /\ Len(key) = 24
    /\ \A i \in 1..22 : key[i] \in Base64Alphabet
    /\ key[23] = "=" /\ key[24] = "="

\* C13: a request whose key is absent, not 24 characters long, not ending
\* in '==' or holding a character outside the base64 alphabet fails the
\* structural check (400) whatever its other headers; 22 base64-alphabet
\* characters followed by '==' pass the key check.
C13_KeyBoundary ==
    (IsAttempt /\ RoutePassed /\ originValid(req)) =>
        /\ ~KeyWellFormed(req.key) => ret.status = 400
        /\ (KeyWellFormed(req.key) /\ requestValid([req EXCEPT !.key = SampleKey])) =>
               ret.status # 400

\* a key that is base64 text of the right length and fails on its padding
\* alone is turned down with 400
C13_Witness ==
    /\ IsAttempt /\ RoutePassed /\ originValid(req)
    /\ isBase64Encoded(req.key) /\ Len(req.key) = 24 /\ ~KeyWellFormed(req.key)
    /\ requestValid([req EXCEPT !.key = SampleKey])
    /\ ret.status = 400

\* C14: the accept token is the base64 of the SHA-1 digest of the UTF-8
\* bytes of the trimmed key followed by the GUID; for the sample key
\* dGhlIHNhbXBsZSBub25jZQ== it is s3pPLMBiTxaQ9kYGzzhZRbK+xOo=.
C14_AcceptTokenRFC ==
    (IsAttempt /\ Outcome(LastSocket) = "101") =>
        /\ generateSecWebSocketAccept(req.key)
               = Sha1Base64(HashInput("utf8", Trim(req.key) \o <<GUID>>))
        /\ req.key = SampleKey =>
               generateSecWebSocketAccept(req.key) = <<"s3pPLMBiTxaQ9kYGzzhZRbK+xOo=">>

\* C15: no upgrade attempt, rejected or accepted, on a literal or a wildcard
\* route, ends in an error raised out of the handler.
C15_NoErrorEscapes ==
    IsAttempt => ~ret.threw

\* the records the registry holds, whatever its shape
RegistryRecords ==
    {activeConnections.list[i] : i \in 1..Len(activeConnections.list)}
        \cup UNION {{activeConnections.map[k][i] : i \in 1..Len(activeConnections.map[k])} :
                        k \in DOMAIN activeConnections.map}

\* C16: the route check is part of validation in every delivery mode: an
\* attempt whose path fails the route check is a route mismatch (404),
\* also through handleUpgrade on a server without transport, and every
\* record of the registry has a path that passes the route check.
C16_RouteCheckedInEveryMode ==
    /\ (IsAttempt /\ ~correctRoute(req)) => ret.status = 404
    /\ \A ws \in RegistryRecords : correctRoute([url |-> ws.uri])

\* C17: an accepted handshake writes the 101 response before it inserts
\* the record and before it emits the notification, and the record it
\* passes is in ready state OPEN.
C17_ResponseBeforeRegistration ==
    (IsAttempt /\ ret.status = 101 /\ ~ret.threw) =>
        /\ ret.steps = <<"write", "addConnection", "emit">>
        /\ emitted[Len(emitted)].readyState = "OPEN"

(***************************************************************************)
(* Sequences of attempts: servers that restrict origins, with and without  *)
(* a transport, on both routes, receive requests that differ from          *)
(* BaseRequest in at most one field, and are asked for their peers.        *)
(***************************************************************************)
FlowRequests ==
    UNION {{[BaseRequest EXCEPT ![f] = v] : v \in FieldValues[f]} : f \in RequestFields}

InitFlow ==
    \E srv \in BOOLEAN, route \in ServiceRoutes, sub \in {UndefinedList, ServerV1V3} :
        Constructed(srv, route,
                    [origins |-> <<OriginA>>, requireOrigin |-> TRUE,
                     subProtocols |-> sub])

NextFlow ==
    \/ \E r \in FlowRequests : UpgradeEvent(r)
    \/ \E r \in FlowRequests : HandleUpgrade(r)
    \/ \E uri \in PeerArguments : GetPeers(uri)

SpecFlow == InitFlow /\ [][NextFlow]_vars

\* a step that is an upgrade attempt: it takes a fresh transport
AttemptStep == Len(sockets') = Len(sockets) + 1

\* C18: a rejected upgrade attempt, whatever the reason (404, 403, 400,
\* 426), leaves the registry as it was and emits no connection-established
\* notification.
C18_RejectionHasNoEffect ==
    [][(AttemptStep /\ ret'.status \in {404, 403, 400, 426}) =>
          (activeConnections' = activeConnections /\ emitted' = emitted)]_vars

\* a request with an unsupported version is rejected with 426 by a server
\* that holds a connection
C18_Witness ==
    /\ IsAttempt
    /\ ret.status = 426
    /\ Outcome(LastSocket) = "426"
    /\ Len(activeConnections.list) = 1
    /\ Len(emitted) = 1

\* how many times the record made on transport id is in a list
RECURSIVE Occurrences(_, _)
Occurrences(list, id) ==
    IF list = <<>> THEN 0
    ELSE (IF Head(list).tlsSocket = id THEN 1 ELSE 0) + Occurrences(Tail(list), id)

\* how many times the record made on transport id is in the registry
InRegistry(id) ==
    Occurrences(activeConnections.list, id)
        + (LET keys == DOMAIN activeConnections.map
               RECURSIVE Sum(_)
               Sum(ks) == IF ks = {} THEN 0
                          ELSE LET k == CHOOSE x \in ks : TRUE
                               IN  Occurrences(activeConnections.map[k], id) + Sum(ks \ {k})
           IN  Sum(keys))

\* a record is in the bucket its request path determines
InOwnBucket(ws) ==
    IF activeConnections.isArray
    THEN \E p \in 1..Len(activeConnections.list) : activeConnections.list[p] = ws
    ELSE /\ WildcardSegment(ws.uri) \in DOMAIN activeConnections.map
         /\ \E p \in 1..Len(activeConnections.map[WildcardSegment(ws.uri)]) :
                activeConnections.map[WildcardSegment(ws.uri)][p] = ws

\* every record stays where it is in a step
RecordsStay ==
    /\ activeConnections'.isArray = activeConnections.isArray
    /\ IsPrefix(activeConnections.list, activeConnections'.list)
    /\ \A k \in DOMAIN activeConnections.map :
           /\ k \in DOMAIN activeConnections'.map
           /\ IsPrefix(activeConnections.map[k], activeConnections'.map[k])

\* C19: once a 101 response is written for a handshake, its record is in
\* the registry, in exactly one bucket, the one its request path
\* determines; no further upgrade event or peers() call moves or removes
\* a record, and the registry never changes between list and map.
C19_CommittedRecordStays ==
    /\ [](\A id \in 1..Len(sockets) :
              Outcome(sockets[id]) = "101" =>
                  /\ InRegistry(id) = 1
                  /\ \A ws \in RegistryRecords : ws.tlsSocket = id => InOwnBucket(ws))
    /\ [][RecordsStay]_vars

\* the record of an accepted handshake is still in place after a rejected
\* attempt and a peers() call
C19_Witness ==
    /\ Len(sockets) = 2
    /\ Outcome(sockets[1]) = "101"
    /\ Outcome(sockets[2]) # "101"
    /\ ret.op = "getPeers"
    /\ activeConnections.list[1].tlsSocket = 1

\* the transports with a 101 response written, in the order of the attempts
AcceptedIds ==
    SelectSeq([i \in 1..Len(sockets) |-> i],
              LAMBDA i : Outcome(sockets[i]) = "101")

\* the transports of the records of a list, in the order of the list
Ids(list) == [p \in 1..Len(list) |-> list[p].tlsSocket]

\* C20: on a flat-registry server, after any sequence of attempts, the
\* peers are exactly one record per accepted handshake, in the order of
\* acceptance, and one connection-established notification was emitted
\* per accepted handshake.
C20_FlatRegistryExact ==
    activeConnections.isArray =>
        /\ Ids(activeConnections.list) = AcceptedIds
        /\ emitted = activeConnections.list
        /\ getPeers(Undefined).kind = "list"
        /\ getPeers(Undefined).list = activeConnections.list
        /\ ret.op = "getPeers" => (ret.kind = "list" /\ ret.list = activeConnections.list)
        /\ (IsAttempt /\ Outcome(LastSocket) = "101") =>
               activeConnections.list[Len(activeConnections.list)]
                   = WebSocket(Len(sockets), URLPathname(req.url))

\* two handshakes were accepted and the peers were asked for
C20_Witness ==
    /\ activeConnections.isArray
    /\ Len(activeConnections.list) = 2
    /\ AcceptedIds = <<1, 2>>
    /\ ret.op = "getPeers"

\* what the server does with a request submitted now, on a fresh transport
Submitted(r) ==
    IF server THEN upgradeListener(r, NewSocket, Len(sockets) + 1)
    ELSE handleUpgrade(r, NewSocket, Len(sockets) + 1)

\* the classification of a request submitted now: the status the handler
\* chooses, whether it ends in an error, what the transport shows, and the
\* accept token computed for an accepted request
Classification(r) ==
    [status   |-> Submitted(r).status,
     threw    |-> Submitted(r).threw,
     response |-> Outcome(Submitted(r).socket),
     token    |-> IF Submitted(r).status = 101
                  THEN generateSecWebSocketAccept(r.key) ELSE Undefined]

\* a classification that reads the request and the configuration and
\* nothing else: neither the registry, nor the transports, nor the
\* notifications of earlier attempts
ByRequestAndConfiguration(r) ==
    LET status == IF server /\ ~correctRoute(r) THEN 404
                  ELSE IF ~originValid(r) THEN 403
                  ELSE IF ~requestValid(r) THEN 400
                  ELSE IF ~versionValid(r) THEN 426
                  ELSE 101
        threw == IF status = 101 THEN wildcardRoute
                 ELSE IF status = 426 THEN FALSE
                 ELSE formatHttpResponse(status, UndefinedList).threw
    IN  [status   |-> status,
         threw    |-> threw,
         response |-> IF threw THEN "none" ELSE ToString(status),
         token    |-> IF status = 101
                      THEN generateSecWebSocketAccept(r.key) ELSE Undefined]

\* C21: the outcome of an upgrade attempt depends only on the request and
\* the configuration, never on earlier attempts or on the registry: in
\* every state the server reaches, every request would be classified, and
\* given the accept token, that the request and the configuration alone
\* determine, and the attempt just made was classified that way.
C21_OutcomeIndependentOfHistory ==
    /\ \A r \in FlowRequests : Classification(r) = ByRequestAndConfiguration(r)
    /\ IsAttempt =>
           /\ ret.status = ByRequestAndConfiguration(req).status
           /\ ret.threw = ByRequestAndConfiguration(req).threw
           /\ Outcome(LastSocket) = ByRequestAndConfiguration(req).response

\* the same request was accepted twice, the second time by a server that
\* already held the record of the first, with the same response
C21_Witness ==
    /\ Len(sockets) = 2
    /\ IsAttempt
    /\ req = BaseRequest
    /\ Outcome(sockets[1]) = "101"
    /\ sockets[2] = sockets[1]
    /\ Len(activeConnections.list) = 2
    /\ Classification(req).status = 101

====
